---- MODULE Spec2Model ----
(***************************************************************************)
(* Model of the file organiser in src/main.py (class FileOrganizer):       *)
(* the classifier get_file_category, the duplicate-name resolution, the    *)
(* pipeline organize_files (normal, dry-run and monitor mode) and the      *)
(* date mode organize_by_date, run against a small filesystem.             *)
(*                                                                         *)
(* A filename is a sequence of one-character strings, so that lower(),     *)
(* the substring test and os.path.splitext are computed character by       *)
(* character as the Python code computes them.                             *)
(***************************************************************************)
EXTENDS Integers, Sequences, FiniteSets, TLC

(***************************************************************************)
(* Strings                                                                 *)
(***************************************************************************)

UpperCase == <<"A","B","C","D","E","F","G","H","I","J","K","L","M",
               "N","O","P","Q","R","S","T","U","V","W","X","Y","Z">>

LowerCase == <<"a","b","c","d","e","f","g","h","i","j","k","l","m",
               "n","o","p","q","r","s","t","u","v","w","x","y","z">>

\* the lower-case letter of every upper-case letter
LowerOf ==
  [c \in {UpperCase[i] : i \in 1..Len(UpperCase)} |->
     LowerCase[CHOOSE i \in 1..Len(UpperCase) : UpperCase[i] = c]]

\* str.lower() on one character
LowerChar(c) == IF c \in DOMAIN LowerOf THEN LowerOf[c] ELSE c

\* str.lower()
Lower(s) == [i \in 1..Len(s) |-> LowerChar(s[i])]

\* keyword in s
Contains(s, keyword) ==
  \E i \in 0..(Len(s) - Len(keyword)) : SubSeq(s, i + 1, i + Len(keyword)) = keyword

\* str.rfind(ch), 0-based, -1 when ch does not occur
RFind(s, ch) ==
  IF \E i \in 1..Len(s) : s[i] = ch
  THEN (CHOOSE i \in 1..Len(s) : s[i] = ch /\ \A j \in (i + 1)..Len(s) : s[j] # ch) - 1
  ELSE -1

\* the loop of os.path.splitext that skips the leading dots of the name:
\* TRUE when a character other than "." occurs at a 0-based index in
\* filenameIndex .. dotIndex - 1
RECURSIVE NonDotBefore(_, _, _)
NonDotBefore(p, filenameIndex, dotIndex) ==
  IF filenameIndex < dotIndex
  THEN IF p[filenameIndex + 1] # "." THEN TRUE
       ELSE NonDotBefore(p, filenameIndex + 1, dotIndex)
  ELSE FALSE

\* os.path.splitext(filename) for a name without a directory separator:
\* <<root, ext>>
splitext(p) ==
  LET dotIndex == RFind(p, ".") IN
  IF dotIndex > -1 /\ NonDotBefore(p, 0, dotIndex)
  THEN <<SubSeq(p, 1, dotIndex), SubSeq(p, dotIndex + 1, Len(p))>>
  ELSE <<p, <<>>>>

\* str(counter) for counter >= 0
RECURSIVE Digits(_)
Digits(n) ==
  LET d == <<"0","1","2","3","4","5","6","7","8","9">>[(n % 10) + 1] IN
  IF n < 10 THEN <<d>> ELSE Digits(n \div 10) \o <<d>>

(***************************************************************************)
(* Classifier                                                              *)
(***************************************************************************)

\* self.file_categories, in declaration order
file_categories ==
  <<
    [name |-> "Documents", tokens |->
      << <<".", "p", "d", "f">>,
         <<".", "d", "o", "c">>,
         <<".", "d", "o", "c", "x">>,
         <<".", "t", "x", "t">>,
         <<".", "r", "t", "f">>,
         <<".", "o", "d", "t">>,
         <<".", "x", "l", "s">>,
         <<".", "x", "l", "s", "x">>,
         <<".", "p", "p", "t">>,
         <<".", "p", "p", "t", "x">>,
         <<".", "c", "s", "v">>,
         <<".", "m", "d">> >>],
    [name |-> "Images", tokens |->
      << <<".", "j", "p", "g">>,
         <<".", "j", "p", "e", "g">>,
         <<".", "p", "n", "g">>,
         <<".", "g", "i", "f">>,
         <<".", "b", "m", "p">>,
         <<".", "s", "v", "g">>,
         <<".", "t", "i", "f", "f">>,
         <<".", "w", "e", "b", "p">>,
         <<".", "i", "c", "o">>,
         <<".", "h", "e", "i", "c">> >>],
    [name |-> "Screenshots", tokens |->
      << <<"s", "c", "r", "e", "e", "n", "s", "h", "o", "t">>,
         <<"s", "c", "r", "e", "e", "n", " ", "s", "h", "o", "t">>,
         <<"s", "c", "r", "e", "e", "n", " ", "c", "a", "p", "t", "u", "r", "e">>,
         <<"c", "a", "p", "t", "u", "r", "a">>,
         <<"p", "r", "i", "n", "t", " ", "s", "c", "r", "e", "e", "n">> >>],
    [name |-> "Videos", tokens |->
      << <<".", "m", "p", "4">>,
         <<".", "a", "v", "i">>,
         <<".", "m", "k", "v">>,
         <<".", "m", "o", "v">>,
         <<".", "w", "m", "v">>,
         <<".", "f", "l", "v">>,
         <<".", "w", "e", "b", "m">>,
         <<".", "m", "4", "v">>,
         <<".", "m", "p", "g">>,
         <<".", "m", "p", "e", "g">> >>],
    [name |-> "Music", tokens |->
      << <<".", "m", "p", "3">>,
         <<".", "w", "a", "v">>,
         <<".", "f", "l", "a", "c">>,
         <<".", "a", "a", "c">>,
         <<".", "o", "g", "g">>,
         <<".", "m", "4", "a">>,
         <<".", "w", "m", "a">> >>],
    [name |-> "Archives", tokens |->
      << <<".", "z", "i", "p">>,
         <<".", "r", "a", "r">>,
         <<".", "7", "z">>,
         <<".", "t", "a", "r">>,
         <<".", "g", "z">>,
         <<".", "b", "z", "2">>,
         <<".", "i", "s", "o">>,
         <<".", "d", "m", "g">> >>],
    [name |-> "Executables", tokens |->
      << <<".", "e", "x", "e">>,
         <<".", "m", "s", "i">>,
         <<".", "a", "p", "p">>,
         <<".", "d", "e", "b">>,
         <<".", "r", "p", "m">>,
         <<".", "s", "h">>,
         <<".", "b", "a", "t">>,
         <<".", "c", "m", "d">> >>],
    [name |-> "Code", tokens |->
      << <<".", "p", "y">>,
         <<".", "j", "s">>,
         <<".", "h", "t", "m", "l">>,
         <<".", "c", "s", "s">>,
         <<".", "c", "p", "p">>,
         <<".", "c">>,
         <<".", "j", "a", "v", "a">>,
         <<".", "p", "h", "p">>,
         <<".", "r", "b">>,
         <<".", "g", "o">>,
         <<".", "r", "s">>,
         <<".", "s", "w", "i", "f", "t">>,
         <<".", "j", "s", "o", "n">>,
         <<".", "x", "m", "l">>,
         <<".", "y", "a", "m", "l">>,
         <<".", "y", "m", "l">> >>],
    [name |-> "Others", tokens |->
      <<  >>]
  >>

CategoryNames == {file_categories[i].name : i \in 1..Len(file_categories)}

TokensOf(category) ==
  LET i == CHOOSE j \in 1..Len(file_categories) : file_categories[j].name = category
  IN  file_categories[i].tokens

InTokens(x, tokens) == \E i \in 1..Len(tokens) : tokens[i] = x

\* the extension scan of get_file_category: the first category from index i
\* on, Screenshots excluded, whose list holds file_ext; "Others" at the end
RECURSIVE ScanCategories(_, _)
ScanCategories(file_ext, i) ==
  IF i > Len(file_categories) THEN "Others"
  ELSE IF file_categories[i].name # "Screenshots"
          /\ InTokens(file_ext, file_categories[i].tokens)
       THEN file_categories[i].name
       ELSE ScanCategories(file_ext, i + 1)

\* variant: the extension is compared as written, without lower()
FileExtCaseSensitive(filename) == splitext(filename)[2]

\* the extension get_file_category looks up
FileExt(filename) == Lower(splitext(filename)[2])

\* self.file_categories["Screenshots"]
ScreenshotKeywords == TokensOf("Screenshots")

\* the Screenshots test of get_file_category
IsScreenshotName(filename) ==
  LET file_lower == Lower(filename) IN
  \E i \in 1..Len(ScreenshotKeywords) :
     Contains(file_lower, ScreenshotKeywords[i])

\* variant: the extension scan comes first, the Screenshots test last
get_file_category_ext_first(filename) ==
  IF ScanCategories(FileExt(filename), 1) # "Others"
  THEN ScanCategories(FileExt(filename), 1)
  ELSE IF IsScreenshotName(filename) THEN "Screenshots" ELSE "Others"

get_file_category(filename) ==
  IF IsScreenshotName(filename) THEN "Screenshots"
  ELSE LET file_ext == FileExt(filename) IN ScanCategories(file_ext, 1)

\* names the classifier is applied to on its own: every stem with every ending
SampleStems ==
  { <<>>,
    <<"a">>,
    <<"R", "e", "p", "o", "r", "t">>,
    <<"M", "y", " ", "S", "c", "r", "e", "e", "n", "s", "h", "o", "t", " ", "2", "0", "2", "3">>,
    <<"S", "C", "R", "E", "E", "N", " ", "S", "H", "O", "T">>,
    <<"s", "c", "r", "e", "e", "n", " ", "c", "a", "p", "t", "u", "r", "e">>,
    <<"C", "a", "p", "t", "u", "r", "a">>,
    <<"p", "r", "i", "n", "t", " ", "s", "c", "r", "e", "e", "n">>,
    <<"s", "c", "r", "e", "e", "n">>,
    <<"a", ".", "b">>,
    <<"x", ".", "t", "a", "r">>,
    <<".">> }

SampleEndings ==
  { <<>>,
    <<".", "p", "d", "f">>,
    <<".", "P", "D", "F">>,
    <<".", "p", "n", "g">>,
    <<".", "P", "n", "g">>,
    <<".", "f", "l", "a", "c">>,
    <<".", "x", "y", "z">>,
    <<".">>,
    <<".", "g", "z">>,
    <<".", "p", "y">>,
    <<".", "m", "p", "4">>,
    <<".", "e", "x", "e">>,
    <<".", "j", "p", "e", "g">> }

SampleNames ==
  {s \o e : s \in SampleStems, e \in SampleEndings} \ {<<>>, <<".">>, <<".", ".">>}

(***************************************************************************)
(* Bounds and the filesystem                                               *)
(***************************************************************************)

\* most regular files directly under the root before the tool starts
MaxFiles == 2

\* most runs of the pipeline in one behaviour
MaxRuns == 2

\* self.downloads_path, as the name of a directory; every other directory
\* is named by its name under the root
Root == "."

\* os.path.basename(__file__)
ScriptName == <<"m", "a", "i", "n", ".", "p", "y">>

\* 'file_organizer.log'
LogName == <<"f", "i", "l", "e", "_", "o", "r", "g", "a", "n", "i", "z", "e", "r", ".", "l", "o", "g">>

\* names a regular file under the root may have before the tool starts
RootNames ==
  { <<"a", ".", "p", "d", "f">>,
    <<"a", "_", "1", ".", "p", "d", "f">>,
    <<"b", ".", "P", "N", "G">>,
    ScriptName }

\* values of strftime(date_format) of a modification time
Periods == {"2024-01", "2024-02"}

\* f"Date_{date_folder}"
DateFolder(date_folder) == "Date_" \o date_folder

\* os.path.join(directory, name): the path of an entry of a directory
Path(directory, name) == [dir |-> directory, name |-> name]

\* os.path.dirname(path)
Dirname(path) == path.dir

\* os.path.join(self.downloads_path, folder): the path of a folder of the root
JoinRoot(folder) == folder

\* a regular file: where it is, and which file it was when the tool started
File(directory, name, id) == [dir |-> directory, name |-> name, id |-> id]

\* files that may lie in a folder before the tool starts
PreFiles ==
  { File(p.dir, p.name, <<p.dir, p.name>>) :
      p \in { Path("Documents", <<"a", ".", "p", "d", "f">>),
              Path("Documents", <<"a", "_", "1", ".", "p", "d", "f">>),
              Path(DateFolder("2024-01"), <<"a", ".", "p", "d", "f">>) } }

\* what the environment refuses: directories in which no entry can be created
\* or removed, and category folders whose os.makedirs raises
Environments ==
  { [unwritable |-> {}, mkdirFails |-> {}],
    [unwritable |-> {"Documents"}, mkdirFails |-> {}],
    [unwritable |-> {}, mkdirFails |-> {"Images"}],
    [unwritable |-> {Root}, mkdirFails |-> {}] }

\* main(): --by-date, --monitor, --dry-run, or none of them
Modes == {"organize", "dry", "monitor", "date"}

None == [none |-> TRUE]

VARIABLES
  fs,            \* the regular files under the root and in its folders
  folders,       \* the folders that exist under the root
  env,           \* what the environment refuses
  mode,          \* the command line
  logInRoot,     \* logging is enabled and the working directory is the root
  pc,            \* "start", "ready", "loop", "returned", "crashed"
  todo,          \* files of the listing not yet processed
  listed,        \* the listing of the current run
  listOk,        \* os.listdir succeeded in the current run
  stats,         \* the statistics of the current run
  runs,          \* runs started
  interfered,    \* another writer removed a file during a run
  resolved,      \* the last destination computed
  moves,         \* the successful moves: which file, in which run
  skippedNames,  \* names counted as skipped in the current run
  fs0,           \* fs when the tool started
  folders0,      \* folders when the tool started
  cfName,        \* the classifier on its own: the filename
  cfResult       \* the classifier on its own: the result

vars == <<fs, folders, env, mode, logInRoot, pc, todo, listed, listOk, stats,
          runs, interfered, resolved, moves, skippedNames, fs0, folders0,
          cfName, cfResult>>

\* os.path.exists(path) for the path of a file
Exists(fsys, path) == \E r \in fsys : r.dir = path.dir /\ r.name = path.name

\* the while loop of the duplicate handling
RECURSIVE NextFree(_, _, _, _, _)
NextFree(fsys, dest_folder, name, ext, counter) ==
  LET new_filename == name \o <<"_">> \o Digits(counter) \o ext IN
  IF Exists(fsys, Path(dest_folder, new_filename))
  THEN NextFree(fsys, dest_folder, name, ext, counter + 1)
  ELSE Path(dest_folder, new_filename)

\* variant: one suffix is tried, without the while loop
ResolveDestOnce(fsys, dest_folder, filename) ==
  IF Exists(fsys, Path(dest_folder, filename))
  THEN Path(dest_folder,
            splitext(filename)[1] \o <<"_", "1">> \o splitext(filename)[2])
  ELSE Path(dest_folder, filename)

\* variant: no duplicate handling at all
ResolveDestUnchecked(fsys, dest_folder, filename) == Path(dest_folder, filename)

\* dest_path after the duplicate handling
ResolveDest(fsys, dest_folder, filename) ==
  IF Exists(fsys, Path(dest_folder, filename))
  THEN NextFree(fsys, dest_folder, splitext(filename)[1], splitext(filename)[2], 1)
  ELSE Path(dest_folder, filename)

\* shutil.move(file_path, dest_path) raises: os.rename fails, and then
\* either the copy to dest_path or the removal of file_path fails
MoveFails(fsys, dirs, e, file_path, dest_path) ==
  \/ ~Exists(fsys, file_path)
  \/ dest_path.dir \notin dirs
  \/ dest_path.dir \in e.unwritable
  \/ file_path.dir \in e.unwritable

\* the files after a shutil.move(file_path, dest_path) that raises: when
\* only the directory of file_path refuses, os.rename fails, the copy to
\* dest_path succeeds and os.unlink(file_path) raises, which leaves the
\* copy behind; in every other case nothing has changed
shutil_move_raised(fsys, dirs, e, file_path, dest_path) ==
  IF /\ Exists(fsys, file_path)
     /\ dest_path.dir \in dirs
     /\ dest_path.dir \notin e.unwritable
     /\ file_path.dir \in e.unwritable
  THEN LET src == CHOOSE r \in fsys : r.dir = file_path.dir /\ r.name = file_path.name
           kept == {r \in fsys : ~(r.dir = dest_path.dir /\ r.name = dest_path.name)}
       IN  kept \cup {File(dest_path.dir, dest_path.name, src.id)}
  ELSE fsys

\* variant: the file is copied and the source is left in place
shutil_move_copies(fsys, file_path, dest_path) ==
  LET src == CHOOSE r \in fsys : r.dir = file_path.dir /\ r.name = file_path.name
      kept == {r \in fsys : ~(r.dir = dest_path.dir /\ r.name = dest_path.name)}
  IN  kept \cup {File(dest_path.dir, dest_path.name, src.id)}

\* the files after a shutil.move(file_path, dest_path) that does not raise:
\* the file is renamed, replacing whatever file is at dest_path
shutil_move(fsys, file_path, dest_path) ==
  LET src == CHOOSE r \in fsys : r.dir = file_path.dir /\ r.name = file_path.name
      kept == {r \in fsys : ~(r.dir = dest_path.dir /\ r.name = dest_path.name)}
  IN  (kept \ {src}) \cup {File(dest_path.dir, dest_path.name, src.id)}

\* stats at the start of a run
NewStats ==
  [moved |-> 0, skipped |-> 0, errors |-> 0,
   categories |-> [c \in CategoryNames |-> 0]]

CountSkipped(st) == [st EXCEPT !.skipped = @ + 1]

\* variant: a failed move is counted as a move
CountErrorAsMoved(st) == [st EXCEPT !.moved = @ + 1]

CountError(st) == [st EXCEPT !.errors = @ + 1]

\* the dry-run branch counts the file as moved
CountSimulated(st) == [st EXCEPT !.moved = @ + 1]

\* variant: the per-category count is not updated
CountMovedOnly(st, category) == [st EXCEPT !.moved = @ + 1]

\* a successful move counts the file and its category
CountMoved(st, category) ==
  [st EXCEPT !.moved = @ + 1, !.categories[category] = @ + 1]

\* variant: the flag is not passed on
DryRunArgDropped(m) == FALSE

\* organize_files(dry_run=args.dry_run); monitor_and_organize calls
\* organize_files()
DryRunArg(m) == m = "dry"

\* variant: no except clause, the exception leaves organize_files
OnListErrorRaises(st) == [pc |-> "crashed", stats |-> st]

\* the except clause around the listing and the loop: log and return stats
OnListError(st) == [pc |-> "returned", stats |-> st]

\* the body of the for loop of organize_files for one filename
organize_one(dry_run, filename, fsys, dirs, e, st) ==
  LET file_path == Path(Root, filename)
      category == get_file_category(filename)
      dest_folder == JoinRoot(category)
      dest_path == ResolveDest(fsys, dest_folder, filename)
  IN
  IF filename = ScriptName \/ filename = LogName
  THEN [fs |-> fsys, stats |-> CountSkipped(st), outcome |-> "skipped",
        dest |-> None]
  ELSE IF Dirname(file_path) = JoinRoot(category)
  THEN [fs |-> fsys, stats |-> CountSkipped(st), outcome |-> "skipped",
        dest |-> None]
  ELSE IF dry_run
  THEN [fs |-> fsys, stats |-> CountSimulated(st), outcome |-> "simulated",
        dest |-> dest_path]
  ELSE IF MoveFails(fsys, dirs, e, file_path, dest_path)
  THEN [fs |-> shutil_move_raised(fsys, dirs, e, file_path, dest_path),
        stats |-> CountError(st), outcome |-> "error", dest |-> dest_path]
  ELSE [fs |-> shutil_move(fsys, file_path, dest_path),
        stats |-> CountMoved(st, category), outcome |-> "moved",
        dest |-> dest_path]

\* the listing: names of the regular files directly under the root
ListFiles(fsys) == {r.name : r \in {x \in fsys : x.dir = Root}}

(***************************************************************************)
(* The tool                                                                *)
(***************************************************************************)

\* the files before the tool starts: at most MaxFiles under the root, and
\* some in the folders the mode m moves files to
InitFiles(m) ==
  { root \cup pre :
      root \in { {File(Root, n, <<Root, n>>) : n \in names} :
                 names \in {s \in SUBSET RootNames : Cardinality(s) <= MaxFiles} },
      pre \in SUBSET {r \in PreFiles : (r.dir \in CategoryNames) <=> (m # "date")} }

Init ==
  /\ mode \in Modes
  /\ fs \in InitFiles(mode)
  /\ folders \in { base \cup {r.dir : r \in {x \in fs : x.dir # Root}} :
                   base \in {{}, CategoryNames} }
  /\ env \in Environments
  /\ env.mkdirFails \cap folders = {}
  /\ logInRoot \in BOOLEAN
  /\ logInRoot => Root \notin env.unwritable
  /\ pc = "start"
  /\ todo = {}
  /\ listed = {}
  /\ listOk = FALSE
  /\ stats = NewStats
  /\ runs = 0
  /\ interfered = FALSE
  /\ resolved = None
  /\ moves = {}
  /\ skippedNames = {}
  /\ fs0 = fs
  /\ folders0 = folders
  /\ cfName = <<>>
  /\ cfResult = "none"

\* create_category_folders: the folders that exist afterwards
create_category_folders(dirs, e) ==
  dirs \cup {c \in CategoryNames :
               c \notin dirs /\ c \notin e.mkdirFails /\ Root \notin e.unwritable}

\* FileOrganizer(...): the log file handler opens file_organizer.log in the
\* working directory, then the category folders are created
Construct ==
  /\ pc = "start"
  /\ fs' = IF logInRoot /\ ~Exists(fs, Path(Root, LogName))
           THEN fs \cup {File(Root, LogName, <<"created", LogName>>)}
           ELSE fs
  /\ folders' = create_category_folders(folders, env)
  /\ pc' = "ready"
  /\ UNCHANGED <<env, mode, logInRoot, todo, listed, listOk, stats, runs,
                 interfered, resolved, moves, skippedNames, fs0, folders0,
                 cfName, cfResult>>

\* organize_files up to the loop: fresh stats, then the listing, which the
\* environment may refuse (root missing or unreadable)
StartRun ==
  /\ pc = "ready"
  /\ mode # "date"
  /\ runs < MaxRuns
  /\ runs' = runs + 1
  /\ skippedNames' = {}
  /\ resolved' = None
  /\ \E ok \in BOOLEAN :
       /\ listOk' = ok
       /\ IF ok
          THEN /\ listed' = ListFiles(fs)
               /\ todo' = ListFiles(fs)
               /\ stats' = NewStats
               /\ pc' = "loop"
          ELSE /\ listed' = {}
               /\ todo' = {}
               /\ stats' = OnListError(NewStats).stats
               /\ pc' = OnListError(NewStats).pc
  /\ UNCHANGED <<fs, folders, env, mode, logInRoot, interfered, moves, fs0,
                 folders0, cfName, cfResult>>

\* one iteration of the for loop of organize_files
ProcessFile ==
  /\ pc = "loop"
  /\ mode # "date"
  /\ \E filename \in todo :
       LET r == organize_one(DryRunArg(mode), filename, fs, folders, env, stats) IN
       /\ fs' = r.fs
       /\ stats' = r.stats
       /\ todo' = todo \ {filename}
       /\ resolved' = IF r.dest = None THEN None
                      ELSE [run |-> runs, filename |-> filename,
                            folder |-> r.dest.dir, path |-> r.dest]
       /\ moves' = IF r.outcome = "moved"
                   THEN moves \cup
                        {[id |-> (CHOOSE x \in fs : x.dir = Root /\ x.name = filename).id,
                          run |-> runs]}
                   ELSE moves
       /\ skippedNames' = IF r.outcome = "skipped"
                          THEN skippedNames \cup {filename} ELSE skippedNames
  /\ UNCHANGED <<folders, env, mode, logInRoot, pc, listed, listOk, runs,
                 interfered, fs0, folders0, cfName, cfResult>>

\* after the loop: the summary is logged and stats returned
FinishRun ==
  /\ pc = "loop"
  /\ mode # "date"
  /\ todo = {}
  /\ pc' = "returned"
  /\ UNCHANGED <<fs, folders, env, mode, logInRoot, todo, listed, listOk,
                 stats, runs, interfered, resolved, moves, skippedNames, fs0,
                 folders0, cfName, cfResult>>

\* organize_by_date up to the loop: the listing is not guarded
StartDate ==
  /\ pc = "ready"
  /\ mode = "date"
  /\ runs < MaxRuns
  /\ runs' = runs + 1
  /\ skippedNames' = {}
  /\ resolved' = None
  /\ stats' = NewStats
  /\ \E ok \in BOOLEAN :
       /\ listOk' = ok
       /\ IF ok
          THEN /\ listed' = ListFiles(fs)
               /\ todo' = ListFiles(fs)
               /\ pc' = "loop"
          ELSE /\ listed' = {}
               /\ todo' = {}
               /\ pc' = "crashed"
  /\ UNCHANGED <<fs, folders, env, mode, logInRoot, interfered, moves, fs0,
                 folders0, cfName, cfResult>>

\* one iteration of the for loop of organize_by_date: os.path.getmtime and
\* os.makedirs are outside the try, only shutil.move is inside
DateStep ==
  /\ pc = "loop"
  /\ mode = "date"
  /\ \E filename \in todo, date_folder \in Periods :
       LET file_path == Path(Root, filename)
           dest_folder == JoinRoot(DateFolder(date_folder))
           dest_path == ResolveDest(fs, dest_folder, filename)
       IN
       IF ~Exists(fs, file_path)
       THEN \* os.path.getmtime raises
            /\ pc' = "crashed"
            /\ UNCHANGED <<fs, folders, todo, resolved, moves>>
       ELSE IF dest_folder \notin folders /\ Root \in env.unwritable
       THEN \* os.makedirs raises
            /\ pc' = "crashed"
            /\ UNCHANGED <<fs, folders, todo, resolved, moves>>
       ELSE /\ folders' = folders \cup {dest_folder}
            /\ resolved' = [run |-> runs, filename |-> filename,
                            folder |-> dest_folder, path |-> dest_path]
            /\ todo' = todo \ {filename}
            /\ pc' = pc
            /\ IF MoveFails(fs, folders', env, file_path, dest_path)
               THEN /\ fs' = shutil_move_raised(fs, folders', env, file_path, dest_path)
                    /\ UNCHANGED moves
               ELSE /\ fs' = shutil_move(fs, file_path, dest_path)
                    /\ moves' = moves \cup
                         {[id |-> (CHOOSE x \in fs : x.dir = Root /\ x.name = filename).id,
                           run |-> runs]}
  /\ UNCHANGED <<env, mode, logInRoot, listed, listOk, stats, runs,
                 interfered, skippedNames, fs0, folders0, cfName, cfResult>>

\* organize_by_date returns
FinishDate ==
  /\ pc = "loop"
  /\ mode = "date"
  /\ todo = {}
  /\ pc' = "returned"
  /\ UNCHANGED <<fs, folders, env, mode, logInRoot, todo, listed, listOk,
                 stats, runs, interfered, resolved, moves, skippedNames, fs0,
                 folders0, cfName, cfResult>>

\* the next run: the while loop of monitor_and_organize calls organize_files
\* again on the same object; otherwise the tool is started again
Again ==
  /\ pc = "returned"
  /\ runs < MaxRuns
  /\ pc' = IF mode = "monitor" THEN "ready" ELSE "start"
  /\ UNCHANGED <<fs, folders, env, mode, logInRoot, todo, listed, listOk,
                 stats, runs, interfered, resolved, moves, skippedNames, fs0,
                 folders0, cfName, cfResult>>

\* another writer removes a listed file between the listing and its move
EnvDelete ==
  /\ pc = "loop"
  /\ ~interfered
  /\ \E r \in fs :
       /\ r.dir = Root
       /\ r.name \in todo
       /\ fs' = fs \ {r}
  /\ interfered' = TRUE
  /\ UNCHANGED <<folders, env, mode, logInRoot, pc, todo, listed, listOk,
                 stats, runs, resolved, moves, skippedNames, fs0, folders0,
                 cfName, cfResult>>

Next ==
  \/ Construct
  \/ StartRun
  \/ ProcessFile
  \/ FinishRun
  \/ StartDate
  \/ DateStep
  \/ FinishDate
  \/ Again
  \/ EnvDelete

Spec == Init /\ [][Next]_vars

(***************************************************************************)
(* The classifier on its own                                               *)
(***************************************************************************)

ClassifyInit ==
  /\ cfName \in SampleNames
  /\ cfResult = "none"
  /\ fs = {}
  /\ folders = {}
  /\ env = [unwritable |-> {}, mkdirFails |-> {}]
  /\ mode = "organize"
  /\ logInRoot = FALSE
  /\ pc = "classify"
  /\ todo = {}
  /\ listed = {}
  /\ listOk = FALSE
  /\ stats = NewStats
  /\ runs = 0
  /\ interfered = FALSE
  /\ resolved = None
  /\ moves = {}
  /\ skippedNames = {}
  /\ fs0 = {}
  /\ folders0 = {}

\* category = self.get_file_category(filename)
Classify ==
  /\ pc = "classify"
  /\ cfResult = "none"
  /\ cfResult' = get_file_category(cfName)
  /\ UNCHANGED <<fs, folders, env, mode, logInRoot, pc, todo, listed, listOk,
                 stats, runs, interfered, resolved, moves, skippedNames, fs0,
                 folders0, cfName>>

ClassifyNext == Classify

ClassifySpec == ClassifyInit /\ [][ClassifyNext]_vars

(***************************************************************************)
(* Properties                                                              *)
(***************************************************************************)

\* organize_files runs for real: --dry-run and --by-date are absent
NonDry == mode \in {"organize", "monitor"}

\* names of the files that a run before the current one moved
MovedBefore == {m.id[2] : m \in {x \in moves : x.run < runs}}

\* the names organize_files skips by name
SkipNames == {ScriptName, LogName}

\* C1 as stated: when the tool is the only writer, the second real run
\* reports the files the first run moved as skipped.
C1_SecondRunReportsSkipped ==
  (NonDry /\ ~interfered /\ pc = "returned" /\ listOk /\ runs >= 2)
    => MovedBefore \subseteq skippedNames

\* C1 amended: when the tool is the only writer, over any number of real
\* runs each file is moved at most once; a file that an earlier run moved
\* is no longer listed, so a later run counts it neither as moved nor as
\* skipped nor as an error; and after a run without errors only the files
\* skipped by name remain under the root, so the next run moves nothing.
C1_MovedOnceThenNotListed ==
  (NonDry /\ ~interfered) =>
    /\ \A m1, m2 \in moves : m1.id = m2.id => m1 = m2
    /\ (pc \in {"loop", "returned"} /\ listOk) =>
         /\ MovedBefore \cap listed = {}
         /\ MovedBefore \cap skippedNames = {}
    /\ (pc = "returned" /\ listOk /\ stats.errors = 0) =>
         ListFiles(fs) \subseteq SkipNames

C1_Witness ==
  /\ NonDry /\ ~interfered /\ pc = "returned" /\ listOk /\ runs = 2
  /\ \E m \in moves : m.run = 1
  /\ stats.moved = 0 /\ stats.skipped = 0 /\ stats.errors = 0

\* C2 as stated: in dry-run mode, no other writer at work, the entries of the directory, files and
\* folders, are the ones the tool found, and a run that listed the root
\* reports moved = listed - skipped.
C2_DryRunLeavesEntries ==
  (mode = "dry" /\ ~interfered) =>
    /\ fs = fs0
    /\ folders = folders0
    /\ (pc = "returned" /\ listOk) =>
         stats.moved = Cardinality(listed) - stats.skipped

\* C2 amended: in dry-run mode, no other writer at work, the tool moves, renames, removes and
\* creates nothing: every file stays where it was; the only new entries are
\* the category folders the constructor creates when they are missing and
\* the log file the log handler opens when the working directory is the
\* root; and a run that listed the root reports moved = listed - skipped,
\* without errors and without per-category counts.
C2_DryRunMovesNothing ==
  (mode = "dry" /\ ~interfered) =>
    /\ fs \ {File(Root, LogName, <<"created", LogName>>)} = fs0
    /\ folders0 \subseteq folders
    /\ folders \ folders0 \subseteq CategoryNames
    /\ (pc = "returned" /\ listOk) =>
         /\ stats.moved = Cardinality(listed) - stats.skipped
         /\ stats.errors = 0
         /\ stats.categories = NewStats.categories

C2_Witness ==
  /\ mode = "dry" /\ ~interfered /\ pc = "returned" /\ listOk
  /\ stats.moved > 0 /\ stats.skipped > 0
  /\ folders # folders0
  /\ resolved # None /\ resolved.path.name # resolved.filename

\* C3: whenever a destination is computed, for organize_files or for
\* organize_by_date, the path returned does not exist at that time; it is
\* folder/filename when that is free and otherwise folder/stem_k.ext for
\* the least k >= 1 for which that path is free; and computing it again
\* while no file has been created gives the same path.
C3_ResolvedPathIsFirstFree ==
  [][ (resolved' # None /\ resolved' # resolved) =>
        LET folder == resolved'.folder
            filename == resolved'.filename
            p == resolved'.path
            stem == splitext(filename)[1]
            ext == splitext(filename)[2]
            Candidate(k) == Path(folder, stem \o <<"_">> \o Digits(k) \o ext)
        IN  /\ ~Exists(fs, p)
            /\ p.dir = folder
            /\ IF ~Exists(fs, Path(folder, filename))
               THEN p.name = filename
               ELSE \E k \in 1..(Cardinality(fs) + 1) :
                      /\ p = Candidate(k)
                      /\ \A j \in 1..(k - 1) : Exists(fs, Candidate(j))
            /\ (fs' = fs) => ResolveDest(fs', folder, filename) = p
    ]_vars

C3_Witness ==
  /\ resolved # None
  /\ resolved.filename = <<"a", ".", "p", "d", "f">>
  /\ resolved.path.name = <<"a", "_", "2", ".", "p", "d", "f">>
  /\ Exists(fs, Path(resolved.folder, <<"a", "_", "1", ".", "p", "d", "f">>))

\* C4: in a real run, a file whose move fails (its category folder is
\* missing or not writable, the root is not writable, or the file is gone
\* since the listing) adds one to errors and nothing to moved or to
\* categories, and the loop goes on: no run ends by an exception, and a
\* run that returns after a listing has processed and counted every file.
C4_MoveFailureIsolated ==
  [][ NonDry =>
        /\ pc' # "crashed"
        /\ (pc' = "returned" /\ listOk') =>
             /\ todo' = {}
             /\ stats'.moved + stats'.skipped + stats'.errors = Cardinality(listed')
        /\ (pc = "loop" /\ todo' # todo) =>
             LET filename == CHOOSE f \in todo : f \notin todo'
                 category == get_file_category(filename)
                 failing == /\ filename \notin SkipNames
                            /\ \/ ~Exists(fs, Path(Root, filename))
                               \/ category \notin folders
                               \/ category \in env.unwritable
                               \/ Root \in env.unwritable
             IN  failing =>
                   /\ stats'.errors = stats.errors + 1
                   /\ stats'.moved = stats.moved
                   /\ stats'.categories = stats.categories
                   /\ stats'.skipped = stats.skipped
                   /\ todo' = todo \ {filename}
                   /\ pc' = "loop"
    ]_vars

C4_Witness ==
  /\ NonDry /\ pc = "returned" /\ listOk
  /\ stats.errors = 1 /\ stats.moved = 1
  /\ Exists(fs, Path(Root, <<"a", ".", "p", "d", "f">>))
  /\ Exists(fs, Path("Images", <<"b", ".", "P", "N", "G">>))

\* TRUE when token occurs in s, compared without regard to case
OccursIgnoringCase(s, token) ==
  \E i, j \in 1..Len(s) :
     /\ j - i + 1 = Len(token)
     /\ \A k \in 1..Len(token) : LowerChar(s[i + k - 1]) = LowerChar(token[k])

HasScreenshotToken(s) ==
  \E t \in 1..Len(ScreenshotKeywords) :
     OccursIgnoringCase(s, ScreenshotKeywords[t])

\* C5: a filename that contains a Screenshots token anywhere, in any case,
\* is classified as Screenshots whatever its extension.
C5_ScreenshotNameWins ==
  (cfResult # "none" /\ HasScreenshotToken(cfName)) => cfResult = "Screenshots"

C5_Witness ==
  /\ cfName = <<"M", "y", " ", "S", "c", "r", "e", "e", "n", "s", "h", "o", "t",
                " ", "2", "0", "2", "3", ".", "p", "n", "g">>
  /\ cfResult = "Screenshots"

\* the categories found by extension
ExtensionCategories == CategoryNames \ {"Screenshots"}

\* the classification the claims describe, for the extension x
ClassifiedBy(x, result) ==
  /\ result \in CategoryNames
  /\ \A c \in ExtensionCategories : InTokens(x, TokensOf(c)) => result = c
  /\ (\A c \in ExtensionCategories : ~InTokens(x, TokensOf(c))) => result = "Others"

\* the final extension as the text defines it: the name from its last "."
\* on, lowercased; empty when the name has no "."
LastDotSuffix(s) ==
  IF \E i \in 1..Len(s) : s[i] = "."
  THEN LET i == CHOOSE k \in 1..Len(s) :
                  s[k] = "." /\ \A j \in (k + 1)..Len(s) : s[j] # "."
       IN  [k \in 1..(Len(s) - i + 1) |-> LowerChar(s[i + k - 1])]
  ELSE <<>>

\* the final extension as os.path.splitext gives it: the same, except that
\* a name whose last "." has only "." before it has no extension
SplitextSuffix(s) ==
  IF \E i \in 1..Len(s) : /\ s[i] = "."
                          /\ \A j \in (i + 1)..Len(s) : s[j] # "."
                          /\ \E h \in 1..(i - 1) : s[h] # "."
  THEN LastDotSuffix(s)
  ELSE <<>>

\* C6 as stated: a filename without a Screenshots token is classified by
\* its lowercased final extension, as Others when no category lists it, and
\* the result is always one of the nine category names.
C6_ClassifiedByLastDotSuffix ==
  (cfResult # "none" /\ ~HasScreenshotToken(cfName))
    => ClassifiedBy(LastDotSuffix(cfName), cfResult)

\* C6 amended: a filename without a Screenshots token is classified by its
\* lowercased final extension as os.path.splitext gives it, so that a name
\* whose only dots are leading dots (".pdf") has no extension and is
\* classified as Others; the result is always one of the nine category
\* names.
C6_ClassifiedBySplitextSuffix ==
  /\ cfResult # "none" => cfResult \in CategoryNames
  /\ (cfResult # "none" /\ ~HasScreenshotToken(cfName))
       => ClassifiedBy(SplitextSuffix(cfName), cfResult)

C6_Witness ==
  /\ cfName = <<"a", ".", "b", ".", "P", "D", "F">>
  /\ cfResult = "Documents"

\* C7: no exception leaves organize_files: when the listing of the root
\* fails the run returns its statistics, all zero.
C7_NoExceptionLeavesOrganizeFiles ==
  mode # "date" =>
    /\ pc # "crashed"
    /\ (pc = "returned" /\ ~listOk) => stats = NewStats

C7_Witness ==
  /\ mode # "date" /\ runs = 1 /\ pc = "returned" /\ ~listOk
  /\ stats = NewStats
  /\ ListFiles(fs) # {}

\* C8 as stated: in date mode, after the listing, no failure on one file
\* (reading its modification time, creating its folder, moving it) ends the
\* run: the remaining files are still processed.
C8_DateFailureIsolated ==
  (mode = "date" /\ listOk) => pc # "crashed"

RECURSIVE SumCategories(_, _)
SumCategories(categories, i) ==
  IF i > Len(file_categories) THEN 0
  ELSE categories[file_categories[i].name] + SumCategories(categories, i + 1)

\* TRUE when name is original or original with a suffix _k before the
\* extension
SameOrSuffixed(name, original) ==
  \/ name = original
  \/ \E k \in 1..(Cardinality(fs0) + MaxRuns) :
       name = splitext(original)[1] \o <<"_">> \o Digits(k) \o splitext(original)[2]

\* the places of the file that was f0 when the tool started
PlacesOf(f0) == {r \in fs : r.id = f0.id}

\* C9 as stated: when organize_files runs for real and the tool is the only
\* writer, every file that existed when the tool started exists exactly
\* once: a file of the root at its place or in a category folder under its
\* name or a suffixed name, a file of a folder untouched; no two files
\* share a path.
C9_EveryFileExactlyOnce ==
  (NonDry /\ ~interfered) =>
    /\ \A f0 \in fs0 :
         /\ Cardinality(PlacesOf(f0)) = 1
         /\ \A r \in PlacesOf(f0) :
              IF f0.dir = Root
              THEN \/ r = f0
                   \/ r.dir \in CategoryNames /\ SameOrSuffixed(r.name, f0.name)
              ELSE r = f0
    /\ \A r1, r2 \in fs : (r1.dir = r2.dir /\ r1.name = r2.name) => r1 = r2

\* C9 amended: when organize_files runs for real and the tool is the only
\* writer, no file is lost or overwritten: a file of a folder is untouched;
\* a file of the root is at its place, or it is exactly once in a category
\* folder under its name or a suffixed name; it is at its place and also
\* in a category folder only after a move that copied it and then could not
\* remove it (the root refuses, the folder does not), which is counted as
\* an error; no two files share a path.
C9_NoFileLost ==
  (NonDry /\ ~interfered) =>
    /\ \A f0 \in fs0 :
         /\ PlacesOf(f0) # {}
         /\ \A r \in PlacesOf(f0) :
              IF f0.dir = Root
              THEN \/ r = f0
                   \/ r.dir \in CategoryNames /\ SameOrSuffixed(r.name, f0.name)
              ELSE r = f0
         /\ f0 \notin fs => Cardinality(PlacesOf(f0)) = 1
         /\ Cardinality(PlacesOf(f0)) > 1 =>
              /\ Root \in env.unwritable
              /\ f0.dir = Root
              /\ f0.name \notin {m.id[2] : m \in moves}
    /\ \A r1, r2 \in fs : (r1.dir = r2.dir /\ r1.name = r2.name) => r1 = r2

C9_Witness ==
  /\ NonDry /\ ~interfered /\ pc = "returned" /\ runs = 2
  /\ \E r \in fs : r.id[1] = Root /\ r.dir = "Documents" /\ r.name # r.id[2]
  /\ \E r \in fs : r.id[1] = "Documents" /\ r.name = <<"a", ".", "p", "d", "f">>

\* C10: when a run of organize_files that listed the root returns,
\* moved + skipped + errors is the number of files listed, and in a real
\* run the per-category counts add up to moved.
C10_StatsAccount ==
  (mode # "date" /\ pc = "returned" /\ listOk) =>
    /\ stats.moved + stats.skipped + stats.errors = Cardinality(listed)
    /\ NonDry => SumCategories(stats.categories, 1) = stats.moved

C10_Witness ==
  /\ NonDry /\ pc = "returned" /\ listOk
  /\ stats.moved > 0 /\ stats.skipped > 0 /\ stats.errors > 0
  /\ \E c \in CategoryNames : stats.categories[c] = stats.moved

====
